---- MODULE Spec2Model ----
(***************************************************************************)
(* A model of the rank list of werbenhu/ranklist (src/ranklist.go, lines   *)
(* 1-356): a skip list ordered by (value, key) with per-tier span counters,*)
(* a key -> value dictionary, and one sync.RWMutex around every operation. *)
(*                                                                         *)
(* The RankList object is the variable sl; the nodes it points to live in  *)
(* sl.nodes, a store from addresses to Node records.  Every operation of   *)
(* the package is an operator computed the way its code computes it, loop  *)
(* by loop.  Spec runs whole Set and Del calls one after the other; the    *)
(* concurrent specifications run the calls of several goroutines step by   *)
(* step under the lock.                                                    *)
(***************************************************************************)
EXTENDS Integers, Sequences, FiniteSets, TLC

\* ------------------------------------------------------------------ bounds
\* Keys are 1..MaxKey and values 1..MaxValue.
MaxKey == 3
MaxValue == 2
\* The most consecutive draws below Probability the random source gives one
\* randomLevel call: generated levels are 1..MaxDraws+1.
MaxDraws == 1
\* The goroutines of the concurrent specifications are 1..NumProcs.
NumProcs == 2

\* --------------------------------------------------------------- constants
MaxLevel == 12

\* The zero value of the key and value types (ZeroValue[K]()).
ZeroValue == 0

\* The nil pointer, and the address of the header node.
Nil == 0
Header == -1

Keys == 1..MaxKey
Values == 1..MaxValue
Tiers == 0..(MaxLevel - 1)

\* Addresses NewNode can return: one per key and as many spares.
Addrs == 1..(2 * MaxKey)

\* ------------------------------------------------------------------- state
VARIABLES
    sl,     \* the RankList: nodes (the node store), dict, level, length
    rw,     \* sl's embedded sync.RWMutex: w, the goroutines holding the
            \* writer side (at most one), and readers, those holding a
            \* read lock
    pc,     \* pc[p]: where goroutine p is in the call it is making
    call,   \* call[p]: the operation and arguments of p's call
    reg,    \* reg[p]: the value p's length++ has loaded
    ret     \* ret[p]: what p's call is about to return

vars == <<sl, rw, pc, call, reg, ret>>

Procs == 1..NumProcs

\* (value, key) order of the list: value ascending, then key ascending.
Less(v1, k1, v2, k2) == v1 < v2 \/ (v1 = v2 /\ k1 < k2)

\* Greater without the tie-break on the key.
Greater_valueOnly(v1, k1, v2, k2) == v1 > v2

\* Greater with the tie-break on the key reversed.
Greater_keyDescending(v1, k1, v2, k2) == v1 > v2 \/ (v1 = v2 /\ k1 < k2)

Greater(v1, k1, v2, k2) == v1 > v2 \/ (v1 = v2 /\ k1 > k2)

\* ------------------------------------------------------------ construction
NewNode(key, value, level) ==
    [data    |-> [Key |-> key, Value |-> value],
     forward |-> [i \in Tiers |-> Nil],
     span    |-> [i \in Tiers |-> 0],
     level   |-> level]

EmptyDict == [k \in {} |-> ZeroValue]

\* New that starts the list at MaxLevel.
New_atMaxLevel ==
    [nodes  |-> (Header :> NewNode(ZeroValue, ZeroValue, MaxLevel)),
     dict   |-> EmptyDict,
     level  |-> MaxLevel,
     length |-> 0]

New ==
    [nodes  |-> (Header :> NewNode(ZeroValue, ZeroValue, MaxLevel)),
     dict   |-> EmptyDict,
     level  |-> 1,
     length |-> 0]

\* F(x) with x computed once, before F uses it: a local variable of the code.
Local(x, F(_)) == CHOOSE r \in {F(v) : v \in {x}} : TRUE

\* ------------------------------------------------------------ node store
\* The nodes some chain of forward pointers reaches from the header; the
\* others are garbage, which the runtime reclaims.
RECURSIVE ReachFrom(_, _, _)
ReachFrom(nodes, seen, frontier) ==
    Local(({nodes[n].forward[i] : n \in frontier, i \in Tiers} \ {Nil})
              \ seen,
          LAMBDA next :
              IF next = {} THEN seen
              ELSE ReachFrom(nodes, seen \cup next, next))

Collect(nodes) ==
    Local(ReachFrom(nodes, {Header}, {Header}), LAMBDA live :
        IF live = DOMAIN nodes THEN nodes ELSE [n \in live |-> nodes[n]])

\* The address of a newly allocated node: any address not in use.  The code
\* never compares addresses except with nil, so the choice is immaterial;
\* the key's own slot is taken when free, the lowest spare otherwise.
NewAddr(nodes, key) ==
    IF key \notin DOMAIN nodes THEN key
    ELSE CHOOSE a \in Addrs \ DOMAIN nodes :
             \A b \in Addrs \ DOMAIN nodes : a <= b

\* ------------------------------------------------------------- randomLevel
\* draws[j] is TRUE when the j-th rand.Float64() is below Probability.
RECURSIVE randomLevelFrom(_, _)
randomLevelFrom(level, draws) ==
    IF draws # <<>> /\ Head(draws) /\ level < MaxLevel
    THEN randomLevelFrom(level + 1, Tail(draws))
    ELSE level

randomLevel(draws) == randomLevelFrom(1, draws)

\* The draws one randomLevel call can see: n below Probability, then one not.
DrawSeqs == {[j \in 1..(n + 1) |-> j <= n] : n \in 0..MaxDraws}

\* --------------------------------------------------------------------- del
\* The inner loop of del's search: advance along tier i while the next node
\* is before (value, key).
RECURSIVE delAdvance(_, _, _, _, _)
delAdvance(nodes, i, curr, key, value) ==
    Local(nodes[curr].forward[i], LAMBDA f :
        IF f # Nil /\ Less(nodes[f].data.Value, nodes[f].data.Key, value, key)
        THEN delAdvance(nodes, i, f, key, value)
        ELSE curr)

\* delSearch whose loop stops above tier 0 (i > 0 for i >= 0).
RECURSIVE delSearch_stopsAboveZero(_, _, _, _, _, _)
delSearch_stopsAboveZero(nodes, i, curr, key, value, prev) ==
    IF i <= 0 THEN prev
    ELSE Local(delAdvance(nodes, i, curr, key, value), LAMBDA c :
             delSearch_stopsAboveZero(nodes, i - 1, c, key, value,
                                      [prev EXCEPT ![i] = c]))

\* The outer loop of del's search, tiers i down to 0: prev[i] is where the
\* walk stopped at tier i.
RECURSIVE delSearch(_, _, _, _, _, _)
delSearch(nodes, i, curr, key, value, prev) ==
    Local(delAdvance(nodes, i, curr, key, value), LAMBDA c :
        Local([prev EXCEPT ![i] = c], LAMBDA p :
            IF i = 0 THEN p ELSE delSearch(nodes, i - 1, c, key, value, p)))

\* delUnlinkTier that does not pass the removed node's span on.
delUnlinkTier_dropsSpan(nodes, i, prev, key, value) ==
    Local(nodes[prev[i]].forward[i], LAMBDA curr :
        IF curr # Nil /\ nodes[curr].data.Key = key
                      /\ nodes[curr].data.Value = value
        THEN [nodes EXCEPT ![prev[i]].forward[i] = nodes[curr].forward[i]]
        ELSE IF curr # Nil
        THEN [nodes EXCEPT ![curr].span[i] = @ - 1]
        ELSE nodes)

\* delUnlinkTier that adds the removed node's span to the predecessor.
delUnlinkTier_foldsIntoPrev(nodes, i, prev, key, value) ==
    Local(nodes[prev[i]].forward[i], LAMBDA curr :
        IF curr # Nil /\ nodes[curr].data.Key = key
                      /\ nodes[curr].data.Value = value
        THEN [nodes EXCEPT ![prev[i]].forward[i] = nodes[curr].forward[i],
                           ![prev[i]].span[i] = @ + (nodes[curr].span[i] - 1)]
        ELSE IF curr # Nil
        THEN [nodes EXCEPT ![prev[i]].span[i] = @ - 1]
        ELSE nodes)

\* delUnlinkTier that leaves the spans of the tiers above the removed node.
delUnlinkTier_noDecrement(nodes, i, prev, key, value) ==
    Local(nodes[prev[i]].forward[i], LAMBDA curr :
        IF curr # Nil /\ nodes[curr].data.Key = key
                      /\ nodes[curr].data.Value = value
        THEN Local([nodes EXCEPT ![prev[i]].forward[i] =
                                     nodes[curr].forward[i]],
                   LAMBDA n1 :
                 IF n1[curr].forward[i] # Nil
                 THEN [n1 EXCEPT ![n1[curr].forward[i]].span[i] =
                                     @ + (n1[curr].span[i] - 1)]
                 ELSE n1)
        ELSE nodes)

\* One round of del's update loop, at tier i.
delUnlinkTier(nodes, i, prev, key, value) ==
    Local(nodes[prev[i]].forward[i], LAMBDA curr :
        IF curr # Nil /\ nodes[curr].data.Key = key
                      /\ nodes[curr].data.Value = value
        THEN Local([nodes EXCEPT ![prev[i]].forward[i] =
                                     nodes[curr].forward[i]],
                   LAMBDA n1 :
                 IF n1[curr].forward[i] # Nil
                 THEN [n1 EXCEPT ![n1[curr].forward[i]].span[i] =
                                     @ + (n1[curr].span[i] - 1)]
                 ELSE n1)
        ELSE IF curr # Nil
        THEN [nodes EXCEPT ![curr].span[i] = @ - 1]
        ELSE nodes)

\* delUnlink that stops after its first round.
delUnlink_oneTier(nodes, i, level, prev, key, value) ==
    IF i < level
    THEN delUnlinkTier(nodes, i, prev, key, value)
    ELSE nodes

\* del's update loop, tiers i up to level - 1.
RECURSIVE delUnlink(_, _, _, _, _, _)
delUnlink(nodes, i, level, prev, key, value) ==
    IF i < level
    THEN Local(delUnlinkTier(nodes, i, prev, key, value), LAMBDA n :
             delUnlink(n, i + 1, level, prev, key, value))
    ELSE nodes

\* delShrink that leaves the level where it is.
delShrink_keepsLevel(nodes, level) == level

\* delShrink that lowers the level once at most.
delShrink_oneStep(nodes, level) ==
    IF level > 1 /\ nodes[Header].forward[level - 1] = Nil
    THEN level - 1
    ELSE level

\* del's last loop: lower the level while the top tier is empty.
RECURSIVE delShrink(_, _)
delShrink(nodes, level) ==
    IF level > 1 /\ nodes[Header].forward[level - 1] = Nil
    THEN delShrink(nodes, level - 1)
    ELSE level

\* del that leaves the key in dict.
del_keepsDict(s, key) ==
    IF key \notin DOMAIN s.dict
    THEN [sl |-> s, ret |-> FALSE]
    ELSE Local(s.dict[key], LAMBDA value :
         Local(delSearch(s.nodes, s.level - 1, Header, key, value,
                         [i \in Tiers |-> Nil]), LAMBDA prev :
         Local(delUnlink(s.nodes, 0, s.level, prev, key, value),
               LAMBDA nodes :
             [sl  |-> [nodes  |-> Collect(nodes),
                       dict   |-> s.dict,
                       level  |-> delShrink(nodes, s.level),
                       length |-> s.length - 1],
              ret |-> TRUE])))

\* del without sl.length--.
del_keepsLength(s, key) ==
    IF key \notin DOMAIN s.dict
    THEN [sl |-> s, ret |-> FALSE]
    ELSE Local(s.dict[key], LAMBDA value :
         Local(delSearch(s.nodes, s.level - 1, Header, key, value,
                         [i \in Tiers |-> Nil]), LAMBDA prev :
         Local(delUnlink(s.nodes, 0, s.level, prev, key, value),
               LAMBDA nodes :
             [sl  |-> [nodes  |-> Collect(nodes),
                       dict   |-> [k \in DOMAIN s.dict \ {key} |-> s.dict[k]],
                       level  |-> delShrink(nodes, s.level),
                       length |-> s.length],
              ret |-> TRUE])))

\* del without the return on a key that is not in dict: the lookup gives
\* the zero value and the loops run.
del_noEarlyReturn(s, key) ==
    Local(IF key \in DOMAIN s.dict THEN s.dict[key] ELSE ZeroValue,
          LAMBDA value :
    Local(delSearch(s.nodes, s.level - 1, Header, key, value,
                    [i \in Tiers |-> Nil]), LAMBDA prev :
    Local(delUnlink(s.nodes, 0, s.level, prev, key, value),
          LAMBDA nodes :
        [sl  |-> [nodes  |-> Collect(nodes),
                  dict   |-> [k \in DOMAIN s.dict \ {key} |-> s.dict[k]],
                  level  |-> delShrink(nodes, s.level),
                  length |-> s.length - 1],
         ret |-> TRUE])))

\* del(key) on the list s: the list afterwards and the value returned.
del(s, key) ==
    IF key \notin DOMAIN s.dict
    THEN [sl |-> s, ret |-> FALSE]
    ELSE Local(s.dict[key], LAMBDA value :
         Local(delSearch(s.nodes, s.level - 1, Header, key, value,
                         [i \in Tiers |-> Nil]), LAMBDA prev :
         Local(delUnlink(s.nodes, 0, s.level, prev, key, value),
               LAMBDA nodes :
             [sl  |-> [nodes  |-> Collect(nodes),
                       dict   |-> [k \in DOMAIN s.dict \ {key} |-> s.dict[k]],
                       level  |-> delShrink(nodes, s.level),
                       length |-> s.length - 1],
              ret |-> TRUE])))

\* --------------------------------------------------------------------- Set
\* The inner loop of Set's search at tier i: advance while the next node is
\* not after (value, key), adding the spans walked over to sum.
RECURSIVE SetAdvance(_, _, _, _, _, _)
SetAdvance(nodes, i, curr, sum, key, value) ==
    Local(nodes[curr].forward[i], LAMBDA f :
        IF f = Nil
           \/ Greater(nodes[f].data.Value, nodes[f].data.Key, value, key)
        THEN [curr |-> curr, sum |-> sum]
        ELSE Local(sum + nodes[f].span[i], LAMBDA sum1 :
                 SetAdvance(nodes, i, f, sum1, key, value)))

\* The outer loop of Set's search, tiers i down to 0, filling prev and rank.
RECURSIVE SetSearch(_, _, _, _, _, _, _, _)
SetSearch(nodes, i, curr, sum, key, value, prev, rank) ==
    Local(SetAdvance(nodes, i, curr, sum, key, value), LAMBDA a :
        Local([prev |-> [prev EXCEPT ![i] = a.curr],
               rank |-> [rank EXCEPT ![i] = a.sum]],
              LAMBDA found :
            IF i = 0 THEN found
            ELSE SetSearch(nodes, i - 1, a.curr, a.sum, key, value,
                           found.prev, found.rank)))

\* SetSpliceTier that leaves the span of the node after the new one as it was.
SetSpliceTier_noCut(nodes, i, new, prev, rank) ==
    Local([nodes EXCEPT ![new].forward[i] = nodes[prev[i]].forward[i]],
          LAMBDA n1 :
    Local([n1 EXCEPT ![prev[i]].forward[i] = new], LAMBDA n2 :
        IF i = 0
        THEN [n2 EXCEPT ![new].span[i] = 1]
        ELSE [n2 EXCEPT ![new].span[i] = rank[0] - rank[i] + 1]))

\* One round of Set's splice loop, at tier i; new is the new node's address.
SetSpliceTier(nodes, i, new, prev, rank) ==
    Local([nodes EXCEPT ![new].forward[i] = nodes[prev[i]].forward[i]],
          LAMBDA n1 :
    Local([n1 EXCEPT ![prev[i]].forward[i] = new], LAMBDA n2 :
        IF i = 0
        THEN [n2 EXCEPT ![new].span[i] = 1]
        ELSE Local([n2 EXCEPT ![new].span[i] = rank[0] - rank[i] + 1],
                   LAMBDA n3 :
                 IF n3[new].forward[i] # Nil
                 THEN [n3 EXCEPT ![n3[new].forward[i]].span[i] =
                                     @ - n3[new].span[i] + 1]
                 ELSE n3)))

\* Set's splice loop, tiers i up to level - 1.
RECURSIVE SetSplice(_, _, _, _, _, _)
SetSplice(nodes, i, level, new, prev, rank) ==
    IF i < level
    THEN Local(SetSpliceTier(nodes, i, new, prev, rank), LAMBDA n :
             SetSplice(n, i + 1, level, new, prev, rank))
    ELSE nodes

\* SetBump that adds nothing to the spans of the tiers above the new node.
SetBump_noIncrement(nodes, i, slLevel, prev) == nodes

\* Set's last loop, tiers i from the new node's level up to the list's.
RECURSIVE SetBump(_, _, _, _)
SetBump(nodes, i, slLevel, prev) ==
    IF i < slLevel
    THEN Local(IF nodes[prev[i]].forward[i] # Nil
               THEN [nodes EXCEPT ![nodes[prev[i]].forward[i]].span[i] = @ + 1]
               ELSE nodes,
               LAMBDA n : SetBump(n, i + 1, slLevel, prev))
    ELSE nodes

\* SetLink that leaves the list's level where it was.
SetLink_keepsLevel(s, key, value, level) ==
    LET prev0   == [i \in Tiers |->
                       IF level > s.level /\ s.level <= i /\ i < level
                       THEN Header ELSE Nil]
        new     == NewAddr(s.nodes, key)
    IN  Local(SetSearch(s.nodes, s.level - 1, Header, 0, key, value,
                        prev0, [i \in Tiers |-> 0]), LAMBDA found :
        Local(SetSplice((new :> NewNode(key, value, level)) @@ s.nodes,
                        0, level, new, found.prev, found.rank), LAMBDA n1 :
            [nodes  |-> SetBump(n1, level, s.level, found.prev),
             dict   |-> [k \in DOMAIN s.dict \cup {key} |->
                            IF k = key THEN value ELSE s.dict[k]],
             level  |-> s.level,
             length |-> s.length]))

\* Set from the level it generated to its last loop: raise the level,
\* search, make the node, enter it in dict, splice it in, repair the spans.
SetLink(s, key, value, level) ==
    LET prev0   == [i \in Tiers |->
                       IF level > s.level /\ s.level <= i /\ i < level
                       THEN Header ELSE Nil]
        slLevel == IF level > s.level THEN level ELSE s.level
        new     == NewAddr(s.nodes, key)
    IN  Local(SetSearch(s.nodes, slLevel - 1, Header, 0, key, value,
                        prev0, [i \in Tiers |-> 0]), LAMBDA found :
        Local(SetSplice((new :> NewNode(key, value, level)) @@ s.nodes,
                        0, level, new, found.prev, found.rank), LAMBDA n1 :
            [nodes  |-> SetBump(n1, level, slLevel, found.prev),
             dict   |-> [k \in DOMAIN s.dict \cup {key} |->
                            IF k = key THEN value ELSE s.dict[k]],
             level  |-> slLevel,
             length |-> s.length]))

\* SetCount that stores what was loaded.
SetCount_noIncrement(s, loaded) == [s EXCEPT !.length = loaded]

\* The store of sl.length++, loaded being what its load read.
SetCount(s, loaded) == [s EXCEPT !.length = loaded + 1]

\* The part of Set after the old node is gone.
SetInsert(s, key, value, level) ==
    Local(SetLink(s, key, value, level), LAMBDA linked :
        SetCount(linked, linked.length))

\* Set that does not remove the old node of a key already present.
Set_keepsOldNode(s, key, value, level) == SetInsert(s, key, value, level)

\* Set(key, value) on the list s, with level what randomLevel returned.
Set(s, key, value, level) ==
    Local(IF key \in DOMAIN s.dict THEN del(s, key).sl ELSE s, LAMBDA s1 :
        SetInsert(s1, key, value, level))

\* ------------------------------------------------------------- Get, Length
Get(s, key) ==
    IF key \in DOMAIN s.dict THEN <<s.dict[key], TRUE>>
    ELSE <<ZeroValue, FALSE>>

Length(s) == s.length

\* -------------------------------------------------------------------- Rank
\* RankWalk that returns the rank counted before the node it found.
RECURSIVE RankWalk_withoutLastSpan(_, _, _, _, _, _)
RankWalk_withoutLastSpan(nodes, i, curr, rank, key, value) ==
    Local(nodes[curr].forward[i], LAMBDA f :
        IF f # Nil /\ nodes[f].data.Value = value /\ nodes[f].data.Key = key
        THEN <<rank, TRUE>>
        ELSE IF f = Nil
                \/ Greater(nodes[f].data.Value, nodes[f].data.Key, value, key)
        THEN IF i = 0 THEN <<0, FALSE>>
             ELSE RankWalk_withoutLastSpan(nodes, i - 1, curr, rank,
                                           key, value)
        ELSE Local(rank + nodes[f].span[i], LAMBDA rank1 :
                 RankWalk_withoutLastSpan(nodes, i, f, rank1, key, value)))

\* RankWalk that takes a node for the one sought when its key is.
RECURSIVE RankWalk_matchesKeyOnly(_, _, _, _, _, _)
RankWalk_matchesKeyOnly(nodes, i, curr, rank, key, value) ==
    Local(nodes[curr].forward[i], LAMBDA f :
        IF f # Nil /\ nodes[f].data.Key = key
        THEN <<rank + nodes[f].span[i], TRUE>>
        ELSE IF f = Nil
                \/ Greater(nodes[f].data.Value, nodes[f].data.Key, value, key)
        THEN IF i = 0 THEN <<0, FALSE>>
             ELSE RankWalk_matchesKeyOnly(nodes, i - 1, curr, rank, key, value)
        ELSE Local(rank + nodes[f].span[i], LAMBDA rank1 :
                 RankWalk_matchesKeyOnly(nodes, i, f, rank1, key, value)))

\* Rank's two loops: tier i, at node curr, with rank counted so far.
RECURSIVE RankWalk(_, _, _, _, _, _)
RankWalk(nodes, i, curr, rank, key, value) ==
    Local(nodes[curr].forward[i], LAMBDA f :
        IF f # Nil /\ nodes[f].data.Value = value /\ nodes[f].data.Key = key
        THEN <<rank + nodes[f].span[i], TRUE>>
        ELSE IF f = Nil
                \/ Greater(nodes[f].data.Value, nodes[f].data.Key, value, key)
        THEN IF i = 0 THEN <<0, FALSE>>
             ELSE RankWalk(nodes, i - 1, curr, rank, key, value)
        ELSE Local(rank + nodes[f].span[i], LAMBDA rank1 :
                 RankWalk(nodes, i, f, rank1, key, value)))

Rank(s, key) ==
    IF key \notin DOMAIN s.dict THEN <<0, FALSE>>
    ELSE RankWalk(s.nodes, s.level - 1, Header, 0, key, s.dict[key])

\* ------------------------------------------------------------------- Range
\* RangeSeek that also follows a link whose far end has rank start.
RECURSIVE RangeSeek_inclusive(_, _, _, _, _)
RangeSeek_inclusive(nodes, i, curr, rank, start) ==
    LET f == nodes[curr].forward[i]
    IN  IF f # Nil /\ rank + nodes[f].span[i] <= start
        THEN RangeSeek_inclusive(nodes, i, f, rank + nodes[f].span[i], start)
        ELSE IF i = 0 THEN curr
        ELSE RangeSeek_inclusive(nodes, i - 1, curr, rank, start)

\* Range's first loops: from tier i down, advance while the rank after the
\* next link is still below start; the node reached.
RECURSIVE RangeSeek(_, _, _, _, _)
RangeSeek(nodes, i, curr, rank, start) ==
    LET f == nodes[curr].forward[i]
    IN  IF f # Nil /\ rank + nodes[f].span[i] < start
        THEN RangeSeek(nodes, i, f, rank + nodes[f].span[i], start)
        ELSE IF i = 0 THEN curr
        ELSE RangeSeek(nodes, i - 1, curr, rank, start)

\* RangeCollect that counts from rank 1 when start is below 1.
RECURSIVE RangeCollect_clampedStart(_, _, _, _, _, _)
RangeCollect_clampedStart(nodes, curr, start, end, total, entries) ==
    LET f == nodes[curr].forward[0]
    IN  IF f # Nil /\ (IF start < 1 THEN 1 ELSE start) + total < end
        THEN RangeCollect_clampedStart(nodes, f, start, end, total + 1,
                                       Append(entries, nodes[f].data))
        ELSE entries

\* RangeCollect that puts each entry in front of those collected.
RECURSIVE RangeCollect_prepends(_, _, _, _, _, _)
RangeCollect_prepends(nodes, curr, start, end, total, entries) ==
    LET f == nodes[curr].forward[0]
    IN  IF f # Nil /\ start + total < end
        THEN RangeCollect_prepends(nodes, f, start, end, total + 1,
                                   <<nodes[f].data>> \o entries)
        ELSE entries

\* RangeCollect that collects while start + total <= end.
RECURSIVE RangeCollect_inclusiveEnd(_, _, _, _, _, _)
RangeCollect_inclusiveEnd(nodes, curr, start, end, total, entries) ==
    LET f == nodes[curr].forward[0]
    IN  IF f # Nil /\ start + total <= end
        THEN RangeCollect_inclusiveEnd(nodes, f, start, end, total + 1,
                                       Append(entries, nodes[f].data))
        ELSE entries

\* Range's last loop: collect along tier 0 while start + total < end.
RECURSIVE RangeCollect(_, _, _, _, _, _)
RangeCollect(nodes, curr, start, end, total, entries) ==
    LET f == nodes[curr].forward[0]
    IN  IF f # Nil /\ start + total < end
        THEN RangeCollect(nodes, f, start, end, total + 1,
                          Append(entries, nodes[f].data))
        ELSE entries

\* Range that stops one entry early.
Range_stopsEarly(s, start, end) ==
    Local(RangeSeek(s.nodes, s.level - 1, Header, 0, start), LAMBDA curr :
        RangeCollect(s.nodes, curr, start, end - 1, 0, <<>>))

Range(s, start, end) ==
    Local(RangeSeek(s.nodes, s.level - 1, Header, 0, start), LAMBDA curr :
        RangeCollect(s.nodes, curr, start, end, 0, <<>>))

\* ---------------------------------------------------------------- accesses
\* What a call dereferences and indexes: <<"ptr", n>> for a read or write of
\* a field through the pointer n, <<"idx", i>> for an index into a forward,
\* span, prev or rank array.  A nil pointer or an index outside the array
\* panics, and the call makes no access after it.
Ptr(n) == <<"ptr", n>>
Idx(i) == <<"idx", i>>

Panics(a) == (a[1] = "ptr" /\ a[2] = Nil) \/ (a[1] = "idx" /\ a[2] \notin Tiers)

\* del's search: tiers level - 1 down to 0, through curr, which starts at
\* the header and moves to a forward pointer only after finding it non-nil.
delSearchAccess(level, prev) ==
    {Idx(i) : i \in 0..(level - 1)}
        \cup {Ptr(prev[i]) : i \in (0..(level - 1)) \cap Tiers}

\* One round of del's update loop: through prev[i], then through curr and
\* curr.forward[i] where the code has found them non-nil.
delUnlinkTierAccess(nodes, i, prev, key, value) ==
    IF prev[i] = Nil THEN {Idx(i), Ptr(Nil)}
    ELSE Local(nodes[prev[i]].forward[i], LAMBDA curr :
        {Idx(i), Ptr(prev[i])}
            \cup (IF curr # Nil THEN {Ptr(curr)} ELSE {})
            \cup (IF curr # Nil /\ nodes[curr].data.Key = key
                             /\ nodes[curr].data.Value = value
                             /\ nodes[curr].forward[i] # Nil
                  THEN {Ptr(nodes[curr].forward[i])} ELSE {}))

RECURSIVE delUnlinkAccess(_, _, _, _, _, _)
delUnlinkAccess(nodes, i, level, prev, key, value) ==
    IF i < level
    THEN Local(delUnlinkTierAccess(nodes, i, prev, key, value), LAMBDA here :
             IF \E a \in here : Panics(a) THEN here
             ELSE here \cup delUnlinkAccess(
                      delUnlinkTier(nodes, i, prev, key, value),
                      i + 1, level, prev, key, value))
    ELSE {}

\* The accesses of del(key) on the list s; its last loop reads
\* sl.header.forward[sl.level - 1].
delAccess(s, key) ==
    IF key \notin DOMAIN s.dict THEN {}
    ELSE Local(delSearch(s.nodes, s.level - 1, Header, key, s.dict[key],
                         [i \in Tiers |-> Nil]), LAMBDA prev :
             delSearchAccess(s.level, prev)
                 \cup delUnlinkAccess(s.nodes, 0, s.level, prev,
                                      key, s.dict[key])
                 \cup {Ptr(Header), Idx(s.level - 1)})

\* One round of Set's splice loop: prev[i] and rank[i], through prev[i] and
\* the new node, and through newNode.forward[i] where found non-nil.
SetSpliceTierAccess(nodes, i, new, prev, rank) ==
    IF prev[i] = Nil THEN {Idx(i), Ptr(Nil)}
    ELSE {Idx(i), Idx(0), Ptr(prev[i]), Ptr(new)}
             \cup (IF i # 0 /\ nodes[prev[i]].forward[i] # Nil
                   THEN {Ptr(nodes[prev[i]].forward[i])} ELSE {})

RECURSIVE SetSpliceAccess(_, _, _, _, _, _)
SetSpliceAccess(nodes, i, level, new, prev, rank) ==
    IF i < level
    THEN Local(SetSpliceTierAccess(nodes, i, new, prev, rank), LAMBDA here :
             IF \E a \in here : Panics(a) THEN here
             ELSE here \cup SetSpliceAccess(
                      SetSpliceTier(nodes, i, new, prev, rank),
                      i + 1, level, new, prev, rank))
    ELSE {}

\* Set's last loop: through prev[i], and through prev[i].forward[i] where
\* found non-nil.
SetBumpAccess(nodes, level, slLevel, prev) ==
    UNION {IF prev[i] = Nil THEN {Idx(i), Ptr(Nil)}
           ELSE {Idx(i), Ptr(prev[i])}
                    \cup (IF nodes[prev[i]].forward[i] # Nil
                          THEN {Ptr(nodes[prev[i]].forward[i])} ELSE {})
           : i \in level..(slLevel - 1)}

\* The accesses of Set from the level it generated to its last loop, on a
\* list s where key is absent.  The prev[i] = sl.header loop and the search
\* index every tier below the new sl.level; a level beyond the arrays panics
\* there.
SetLinkAccess(s, key, value, level) ==
    LET prev0   == [i \in Tiers |->
                       IF level > s.level /\ s.level <= i /\ i < level
                       THEN Header ELSE Nil]
        slLevel == IF level > s.level THEN level ELSE s.level
        new     == NewAddr(s.nodes, key)
    IN  IF slLevel > MaxLevel THEN {Idx(i) : i \in 0..(slLevel - 1)}
        ELSE Local(SetSearch(s.nodes, slLevel - 1, Header, 0, key, value,
                             prev0, [i \in Tiers |-> 0]), LAMBDA found :
             Local((new :> NewNode(key, value, level)) @@ s.nodes,
                   LAMBDA n0 :
                 {Idx(i) : i \in 0..(slLevel - 1)}
                     \cup {Ptr(found.prev[i]) : i \in 0..(slLevel - 1)}
                     \cup SetSpliceAccess(n0, 0, level, new,
                                          found.prev, found.rank)
                     \cup SetBumpAccess(
                              SetSplice(n0, 0, level, new,
                                        found.prev, found.rank),
                              level, slLevel, found.prev)))

\* The accesses of Set(key, value), with level what randomLevel returned.
SetAccess(s, key, value, level) ==
    IF key \in DOMAIN s.dict
    THEN Local(delAccess(s, key), LAMBDA first :
             IF \E a \in first : Panics(a) THEN first
             ELSE first \cup SetLinkAccess(del(s, key).sl, key, value, level))
    ELSE SetLinkAccess(s, key, value, level)

\* Rank and Range walk tiers level - 1 down to 0 through curr, which starts
\* at the header and moves to a forward pointer only after finding it
\* non-nil; Range's last loop does the same on tier 0.
RankAccess(s, key) ==
    IF key \notin DOMAIN s.dict THEN {}
    ELSE {Ptr(Header)} \cup {Idx(i) : i \in 0..(s.level - 1)}

RangeAccess(s, start, end) ==
    {Ptr(Header), Ptr(RangeSeek(s.nodes, s.level - 1, Header, 0, start)),
     Idx(0)} \cup {Idx(i) : i \in 0..(s.level - 1)}

\* ------------------------------------------------------------------- Init
NoCall == [op |-> "none"]

\* What a call returns: its bool, its int or value, its slice of entries;
\* the zero values where it returns none.
Ret(ok, n, entries) == [ok |-> ok, n |-> n, entries |-> entries]

NoRet == Ret(FALSE, 0, <<>>)

Init ==
    /\ sl = New
    /\ rw = [w |-> {}, readers |-> {}]
    /\ pc = [p \in Procs |-> "idle"]
    /\ call = [p \in Procs |-> NoCall]
    /\ reg = [p \in Procs |-> 0]
    /\ ret = [p \in Procs |-> NoRet]

\* ----------------------------------------------------- sequential behaviour
\* A whole Set call, lock to unlock, by one caller at a time: the level is
\* what randomLevel makes of the draws.
SetCall(key, value, draws) ==
    /\ sl' = Set(sl, key, value, randomLevel(draws))
    /\ UNCHANGED <<rw, pc, call, reg, ret>>

\* A whole Del call.
DelCall(key) ==
    /\ sl' = del(sl, key).sl
    /\ UNCHANGED <<rw, pc, call, reg, ret>>

Next ==
    \/ \E key \in Keys, value \in Values, draws \in DrawSeqs :
           SetCall(key, value, draws)
    \/ \E key \in Keys : DelCall(key)

Spec == Init /\ [][Next]_vars

\* ------------------------------------------------------------- tall lists
\* Set and Del calls on two keys, with as many draws below Probability as
\* it takes randomLevel to reach MaxLevel, and more.
TallKeys == {1, 2}
TallDraws == {[j \in 1..(n + 1) |-> j <= n] : n \in 0..MaxLevel}

TallNext ==
    \/ \E key \in TallKeys, value \in Values, draws \in TallDraws :
           SetCall(key, value, draws)
    \/ \E key \in TallKeys : DelCall(key)

TallSpec == Init /\ [][TallNext]_vars

\* ----------------------------------------------------- concurrent behaviour
\* The arguments the goroutines of the concurrent specifications call with.
ConcKeys == {1, 2}
ConcValues == {1, 2}
ConcRanges == {<<0, 2>>, <<1, 3>>, <<2, 3>>}

\* sync.RWMutex.  Lock takes the writer side, which keeps later writers and
\* later readers out, and then waits for the readers inside to leave.
Lock(p) == rw.w = {} /\ rw' = [rw EXCEPT !.w = {p}]

LockWait(p) == rw.w = {p} /\ rw.readers = {} /\ UNCHANGED rw

Unlock(p) == rw' = [rw EXCEPT !.w = @ \ {p}]

\* RLock that also waits while another reader holds the lock.
RLock_exclusive(p) ==
    rw.w = {} /\ rw.readers = {} /\ rw' = [rw EXCEPT !.readers = @ \cup {p}]

\* RLock that does not wait for a writer.
RLock_ignoresWriter(p) == rw' = [rw EXCEPT !.readers = @ \cup {p}]

\* RLock waits while a writer holds the lock or waits for it.
RLock(p) == rw.w = {} /\ rw' = [rw EXCEPT !.readers = @ \cup {p}]

RUnlock(p) == rw' = [rw EXCEPT !.readers = @ \ {p}]

\* Goroutine p moves from one place of its call to the next.
Goto(p, from, to) == pc[p] = from /\ pc' = [pc EXCEPT ![p] = to]

\* Goroutine p calls an operation of the package with arguments c.
Begin(p, c, first) ==
    /\ Goto(p, "idle", first)
    /\ call' = [call EXCEPT ![p] = c]
    /\ UNCHANGED <<sl, rw, reg, ret>>

\* Goroutine p returns from its call.
Return(p, from) ==
    /\ Goto(p, from, "idle")
    /\ call' = [call EXCEPT ![p] = NoCall]
    /\ ret' = [ret EXCEPT ![p] = NoRet]
    /\ reg' = [reg EXCEPT ![p] = 0]

\* Set(key, value), statement by statement.
SetBegin(p) ==
    \E key \in ConcKeys, value \in ConcValues :
        Begin(p, [op |-> "Set", key |-> key, value |-> value], "Set_Lock")

\* SetLock that takes the read side of the lock.
SetLock_shared(p) ==
    /\ Goto(p, "Set_Lock", "Set_del")
    /\ RLock(p)
    /\ UNCHANGED <<sl, call, reg, ret>>

SetLock(p) ==
    /\ Goto(p, "Set_Lock", "Set_LockWait")
    /\ Lock(p)
    /\ UNCHANGED <<sl, call, reg, ret>>

SetLockWait(p) ==
    /\ Goto(p, "Set_LockWait", "Set_del")
    /\ LockWait(p)
    /\ UNCHANGED <<sl, call, reg, ret>>

\* SetDel that removes the old node through the locking Del.
SetDel_throughDel(p) ==
    /\ Goto(p, "Set_del", "Set_insert")
    /\ IF call[p].key \in DOMAIN sl.dict
       THEN Lock(p) /\ sl' = del(sl, call[p].key).sl
       ELSE UNCHANGED <<sl, rw>>
    /\ UNCHANGED <<call, reg, ret>>

SetDel(p) ==
    /\ Goto(p, "Set_del", "Set_insert")
    /\ sl' = IF call[p].key \in DOMAIN sl.dict
             THEN del(sl, call[p].key).sl ELSE sl
    /\ UNCHANGED <<rw, call, reg, ret>>

\* From randomLevel to the load of sl.length++.
SetIns(p) ==
    /\ Goto(p, "Set_insert", "Set_count")
    /\ \E draws \in DrawSeqs :
           sl' = SetLink(sl, call[p].key, call[p].value, randomLevel(draws))
    /\ reg' = [reg EXCEPT ![p] = sl.length]
    /\ UNCHANGED <<rw, call, ret>>

\* The store of sl.length++.
SetStore(p) ==
    /\ Goto(p, "Set_count", "Set_Unlock")
    /\ sl' = SetCount(sl, reg[p])
    /\ UNCHANGED <<rw, call, reg, ret>>

SetUnlock(p) == Return(p, "Set_Unlock") /\ Unlock(p) /\ UNCHANGED sl

\* Del(key).
DelBegin(p) ==
    \E key \in ConcKeys : Begin(p, [op |-> "Del", key |-> key], "Del_Lock")

DelLock(p) ==
    /\ Goto(p, "Del_Lock", "Del_LockWait")
    /\ Lock(p)
    /\ UNCHANGED <<sl, call, reg, ret>>

DelLockWait(p) ==
    /\ Goto(p, "Del_LockWait", "Del_del")
    /\ LockWait(p)
    /\ UNCHANGED <<sl, call, reg, ret>>

DelBody(p) ==
    /\ Goto(p, "Del_del", "Del_Unlock")
    /\ sl' = del(sl, call[p].key).sl
    /\ ret' = [ret EXCEPT ![p] = Ret(del(sl, call[p].key).ret, 0, <<>>)]
    /\ UNCHANGED <<rw, call, reg>>

DelUnlock(p) == Return(p, "Del_Unlock") /\ Unlock(p) /\ UNCHANGED sl

\* Get(key).
GetBegin(p) ==
    \E key \in ConcKeys : Begin(p, [op |-> "Get", key |-> key], "Get_RLock")

GetRLock(p) ==
    /\ Goto(p, "Get_RLock", "Get_read")
    /\ RLock(p)
    /\ UNCHANGED <<sl, call, reg, ret>>

\* GetBody that enters the zero value in dict for a key it does not find.
GetBody_storesMiss(p) ==
    /\ Goto(p, "Get_read", "Get_RUnlock")
    /\ ret' = [ret EXCEPT ![p] = Ret(Get(sl, call[p].key)[2],
                                  Get(sl, call[p].key)[1], <<>>)]
    /\ sl' = IF call[p].key \in DOMAIN sl.dict THEN sl
             ELSE [sl EXCEPT !.dict = [k \in DOMAIN sl.dict \cup {call[p].key}
                                          |-> IF k = call[p].key THEN ZeroValue
                                              ELSE sl.dict[k]]]
    /\ UNCHANGED <<rw, call, reg>>

GetBody(p) ==
    /\ Goto(p, "Get_read", "Get_RUnlock")
    /\ ret' = [ret EXCEPT ![p] = Ret(Get(sl, call[p].key)[2],
                                  Get(sl, call[p].key)[1], <<>>)]
    /\ UNCHANGED <<sl, rw, call, reg>>

GetRUnlock(p) == Return(p, "Get_RUnlock") /\ RUnlock(p) /\ UNCHANGED sl

\* Rank(key).
RankBegin(p) ==
    \E key \in ConcKeys : Begin(p, [op |-> "Rank", key |-> key], "Rank_RLock")

RankRLock(p) ==
    /\ Goto(p, "Rank_RLock", "Rank_read")
    /\ RLock(p)
    /\ UNCHANGED <<sl, call, reg, ret>>

RankBody(p) ==
    /\ Goto(p, "Rank_read", "Rank_RUnlock")
    /\ ret' = [ret EXCEPT ![p] = Ret(Rank(sl, call[p].key)[2],
                                  Rank(sl, call[p].key)[1], <<>>)]
    /\ UNCHANGED <<sl, rw, call, reg>>

RankRUnlock(p) == Return(p, "Rank_RUnlock") /\ RUnlock(p) /\ UNCHANGED sl

\* Range(start, end).
RangeBegin(p) ==
    \E r \in ConcRanges :
        Begin(p, [op |-> "Range", start |-> r[1], end |-> r[2]], "Range_RLock")

RangeRLock(p) ==
    /\ Goto(p, "Range_RLock", "Range_read")
    /\ RLock(p)
    /\ UNCHANGED <<sl, call, reg, ret>>

RangeBody(p) ==
    /\ Goto(p, "Range_read", "Range_RUnlock")
    /\ ret' = [ret EXCEPT ![p] =
                  Ret(FALSE, 0, Range(sl, call[p].start, call[p].end))]
    /\ UNCHANGED <<sl, rw, call, reg>>

RangeRUnlock(p) == Return(p, "Range_RUnlock") /\ RUnlock(p) /\ UNCHANGED sl

\* Length().
LengthBegin(p) == Begin(p, [op |-> "Length"], "Length_RLock")

LengthRLock(p) ==
    /\ Goto(p, "Length_RLock", "Length_read")
    /\ RLock(p)
    /\ UNCHANGED <<sl, call, reg, ret>>

LengthBody(p) ==
    /\ Goto(p, "Length_read", "Length_RUnlock")
    /\ ret' = [ret EXCEPT ![p] = Ret(FALSE, Length(sl), <<>>)]
    /\ UNCHANGED <<sl, rw, call, reg>>

LengthRUnlock(p) == Return(p, "Length_RUnlock") /\ RUnlock(p) /\ UNCHANGED sl

\* A goroutine starts a call.
Calls(p) ==
    \/ SetBegin(p)
    \/ DelBegin(p)
    \/ GetBegin(p)
    \/ RankBegin(p)
    \/ RangeBegin(p)
    \/ LengthBegin(p)

\* A goroutine asks for the lock: the steps that may have to wait for others.
Acquires(p) ==
    \/ SetLock(p)
    \/ DelLock(p)
    \/ GetRLock(p)
    \/ RankRLock(p)
    \/ RangeRLock(p)
    \/ LengthRLock(p)

\* The other steps of a call under way.
Proceeds(p) ==
    \/ SetLockWait(p)
    \/ SetDel(p)
    \/ SetIns(p)
    \/ SetStore(p)
    \/ SetUnlock(p)
    \/ DelLockWait(p)
    \/ DelBody(p)
    \/ DelUnlock(p)
    \/ GetBody(p)
    \/ GetRUnlock(p)
    \/ RankBody(p)
    \/ RankRUnlock(p)
    \/ RangeBody(p)
    \/ RangeRUnlock(p)
    \/ LengthBody(p)
    \/ LengthRUnlock(p)

ConcNext == \E p \in Procs : Calls(p) \/ Acquires(p) \/ Proceeds(p)

\* Any goroutines, any calls, any interleaving.
ConcSpec == Init /\ [][ConcNext]_vars

\* The same under a fair scheduler and a fair lock: a call under way takes
\* its next step, and a goroutine that asks for the lock while it is free
\* again and again gets it.  Nothing makes a goroutine start a call.
FairSpec ==
    /\ ConcSpec
    /\ \A p \in Procs : WF_vars(Proceeds(p)) /\ SF_vars(Acquires(p))

\* ------------------------------------------------- one Set per goroutine
\* Every goroutine calls Set once, with a key no other goroutine uses, on
\* the list New() made, and stays returned.
SetBeginOnce(p) ==
    \E key \in Procs \ {call[q].key : q \in {r \in Procs : call[r] # NoCall}},
       value \in ConcValues :
        Begin(p, [op |-> "Set", key |-> key, value |-> value], "Set_Lock")

SetUnlockOnce(p) ==
    /\ Goto(p, "Set_Unlock", "returned")
    /\ Unlock(p)
    /\ UNCHANGED <<sl, call, reg, ret>>

OnceNext ==
    \E p \in Procs :
        \/ SetBeginOnce(p)
        \/ SetLock(p)
        \/ SetLockWait(p)
        \/ SetDel(p)
        \/ SetIns(p)
        \/ SetStore(p)
        \/ SetUnlockOnce(p)

OnceSpec == Init /\ [][OnceNext]_vars

\* ------------------------------------------------------- what the claims use
\* The addresses along tier i from the header (not included), at most fuel.
RECURSIVE ChainFrom(_, _, _, _)
ChainFrom(nodes, i, curr, fuel) ==
    LET f == nodes[curr].forward[i]
    IN  IF f = Nil \/ fuel = 0 THEN <<>>
        ELSE <<f>> \o ChainFrom(nodes, i, f, fuel - 1)

Chain(i) == ChainFrom(sl.nodes, i, Header, Cardinality(DOMAIN sl.nodes))

\* The 1-based place of address n on tier 0, 0 for the header.
Pos0(n) ==
    IF n = Header THEN 0
    ELSE CHOOSE j \in 1..Len(Chain(0)) : Chain(0)[j] = n

OnTier0(n) == \E j \in 1..Len(Chain(0)) : Chain(0)[j] = n

\* The rank the order gives key k among the entries of dictionary d.
RefRank(d, k) ==
    1 + Cardinality({j \in DOMAIN d : Less(d[j], j, d[k], k)})

\* The entry of rank r of dictionary d.
RefEntry(d, r) ==
    LET k == CHOOSE j \in DOMAIN d : RefRank(d, j) = r
    IN  [Key |-> k, Value |-> d[k]]

\* The entries of ranks from, from + 1, ... below to, and within the list.
RefWindow(d, from, to) ==
    LET last == IF to - 1 < Cardinality(DOMAIN d) THEN to - 1
                ELSE Cardinality(DOMAIN d)
        n    == IF last >= from THEN last - from + 1 ELSE 0
    IN  [j \in 1..n |-> RefEntry(d, from + j - 1)]

\* The arguments Range is tried with.
RangeStarts == 1..(MaxKey + 2)
RangeEnds == (0 - 1)..(MaxKey + 3)
LowStarts == (0 - 2)..0

\* C1: for every present key k, Rank(k) is (r, true) with r one more than
\* the number of present entries strictly before k's in (value, key) order.
C1_RankCountsSmaller ==
    \A k \in DOMAIN sl.dict : Rank(sl, k) = <<RefRank(sl.dict, k), TRUE>>

\* Three entries, two of them with the same value, on more than one tier.
C1_Witness ==
    /\ Cardinality(DOMAIN sl.dict) = 3
    /\ sl.level > 1
    /\ \E j, k \in DOMAIN sl.dict : j # k /\ sl.dict[j] = sl.dict[k]
    /\ \E k \in DOMAIN sl.dict : Rank(sl, k) = <<3, TRUE>>

\* C2: length = number of keys of dict = number of nodes on tier 0, and a
\* key is in dict exactly when one tier-0 node has that key, that node
\* carrying dict's value for it.
C2_DictCoherence ==
    /\ sl.length = Cardinality(DOMAIN sl.dict)
    /\ sl.length = Len(Chain(0))
    /\ \A k \in Keys :
           LET at == {j \in 1..Len(Chain(0)) :
                          sl.nodes[Chain(0)[j]].data.Key = k}
           IN  IF k \in DOMAIN sl.dict
               THEN /\ Cardinality(at) = 1
                    /\ \A j \in at :
                           sl.nodes[Chain(0)[j]].data.Value = sl.dict[k]
               ELSE at = {}

\* Two keys present with different values and the key between them absent.
C2_Witness ==
    /\ sl.length = 2
    /\ DOMAIN sl.dict = {1, 3}
    /\ sl.dict[1] # sl.dict[3]

\* C3: on every tier below the list's level, each linked node's span is its
\* rank minus the rank of its predecessor on that tier (the header has rank
\* 0); span[0] is 1 for every node.
C3_SpanIsRankDifference ==
    /\ \A i \in 0..(sl.level - 1) :
           \A j \in 1..Len(Chain(i)) :
               /\ OnTier0(Chain(i)[j])
               /\ sl.nodes[Chain(i)[j]].span[i] =
                      Pos0(Chain(i)[j])
                      - (IF j = 1 THEN 0 ELSE Pos0(Chain(i)[j - 1]))
    /\ \A j \in 1..Len(Chain(0)) : sl.nodes[Chain(0)[j]].span[0] = 1

\* A link of an upper tier that passes over two nodes.
C3_Witness ==
    \E i \in 1..(sl.level - 1) :
        \E j \in 1..Len(Chain(i)) : sl.nodes[Chain(i)[j]].span[i] = 3

\* C4: the forward chain of every tier is in strictly ascending (value,
\* key) order.
C4_TiersAscending ==
    \A i \in Tiers :
        \A j \in 1..(Len(Chain(i)) - 1) :
            Less(sl.nodes[Chain(i)[j]].data.Value,
                 sl.nodes[Chain(i)[j]].data.Key,
                 sl.nodes[Chain(i)[j + 1]].data.Value,
                 sl.nodes[Chain(i)[j + 1]].data.Key)

\* An upper tier with two nodes of equal value.
C4_Witness ==
    \E i \in 1..(sl.level - 1) :
        /\ Len(Chain(i)) >= 2
        /\ sl.nodes[Chain(i)[1]].data.Value = sl.nodes[Chain(i)[2]].data.Value

\* C5: for start >= 1, Range(start, end) is the entries of rank r with
\* start <= r < end and r <= Length(), each once, in ascending rank order.
C5_RangeIsRankWindow ==
    \A start \in RangeStarts, end \in RangeEnds :
        Range(sl, start, end) = RefWindow(sl.dict, start, end)

\* A window inside the list that starts after rank 1 and ends before the
\* last entry.
C5_Witness ==
    /\ sl.length = 3
    /\ sl.level > 1
    /\ Len(Range(sl, 2, 3)) = 1

C7_RangeZeroToLength ==
    Range(sl, 0, sl.length) = RefWindow(sl.dict, 1, sl.length + 1)

\* Three entries, all returned.
C7_Witness ==
    /\ sl.length = 3
    /\ Len(Range(sl, 0, sl.length)) = 3

\* Where a goroutine is inside the critical section of a mutation, and of a
\* read.
InWrite(p) ==
    pc[p] \in {"Set_del", "Set_insert", "Set_count", "Set_Unlock",
               "Del_del", "Del_Unlock"}

InRead(p) ==
    pc[p] \in {"Get_read", "Get_RUnlock", "Rank_read", "Rank_RUnlock",
               "Range_read", "Range_RUnlock", "Length_read", "Length_RUnlock"}

Waiting(p) ==
    pc[p] \in {"Set_Lock", "Set_LockWait", "Del_Lock", "Del_LockWait",
               "Get_RLock", "Rank_RLock", "Range_RLock", "Length_RLock"}

\* C8: while a Set or Del is inside its critical section no other call is
\* inside its own.
C8_MutationsExclusive ==
    \A p, q \in Procs :
        p # q /\ InWrite(p) => ~InWrite(q) /\ ~InRead(q)

\* A Set between removing the old node and linking the new one, with a
\* reader kept waiting.
C8_Witness ==
    \E p, q \in Procs :
        /\ pc[p] = "Set_insert"
        /\ pc[q] \in {"Get_RLock", "Rank_RLock", "Range_RLock", "Length_RLock"}
        /\ call[p].key \notin DOMAIN sl.dict
        /\ sl.length = 1

\* C9: when every goroutine has called Set once, each with its own key, on
\* an empty list, and all have returned, Length() is the number of
\* goroutines and Get of each key returns the value set.
C9_ConcurrentSetsAllLand ==
    (\A p \in Procs : pc[p] = "returned")
        => /\ Length(sl) = NumProcs
           /\ \A p \in Procs :
                  Get(sl, call[p].key) = <<call[p].value, TRUE>>

\* All returned, the later key ranked first.
C9_Witness ==
    /\ \A p \in Procs : pc[p] = "returned"
    /\ \E p, q \in Procs :
           /\ call[p].key < call[q].key
           /\ call[p].value > call[q].value
    /\ sl.level > 1

\* C10: every call made returns, and a goroutine that is not in a call
\* holds neither side of the lock.
C10_CallsReturnUnlocked ==
    \A p \in Procs :
        /\ (pc[p] # "idle") ~> (pc[p] = "idle")
        /\ [](pc[p] = "idle" => p \notin rw.w /\ p \notin rw.readers)

\* A Set of a key already present holds the write lock and is about to
\* remove the old node, with another goroutine waiting for the lock.
C10_Witness ==
    \E p, q \in Procs :
        /\ pc[p] = "Set_del"
        /\ rw.w = {p}
        /\ call[p].key \in DOMAIN sl.dict
        /\ Waiting(q)

\* C11: no Set, Del, Get, Rank, Range or Length call the list can receive,
\* whatever level randomLevel generates, dereferences a nil pointer or
\* indexes a forward, span, prev or rank array outside [0, MaxLevel).
C11_NoNilNoOutOfRange ==
    /\ \A key \in TallKeys, value \in Values, draws \in TallDraws :
           \A a \in SetAccess(sl, key, value, randomLevel(draws)) :
               ~Panics(a)
    /\ \A key \in TallKeys :
           \A a \in delAccess(sl, key) \cup RankAccess(sl, key) : ~Panics(a)
    /\ \A start \in LowStarts \cup RangeStarts, end \in RangeEnds :
           \A a \in RangeAccess(sl, start, end) : ~Panics(a)

\* The list is MaxLevel tall and its first node is lower, so that on the
\* upper tiers the header's forward pointer passes the first node, and the
\* last node's is nil on every tier.
C11_Witness ==
    /\ sl.level = MaxLevel
    /\ sl.length = 2
    /\ sl.nodes[sl.nodes[Header].forward[0]].level < MaxLevel
    /\ sl.nodes[Header].forward[MaxLevel - 1] # Nil

\* C12: Get(k) returns (v, true) with v the value of the latest Set(k, v)
\* that no Del(k) followed, and (zero value, false) when there is none: on
\* the new list every Get is (zero value, false), and in every state a
\* Set(k, v) makes Get(k) (v, true), a Del(k) makes it (zero value, false),
\* and neither changes the Get of another key.
C12_GetIsLatestSet ==
    /\ \A k \in Keys : Get(sl, k) = <<ZeroValue, FALSE>>
    /\ [](/\ \A k \in Keys, v \in Values, draws \in DrawSeqs :
                Local(Set(sl, k, v, randomLevel(draws)), LAMBDA after :
                    /\ Get(after, k) = <<v, TRUE>>
                    /\ \A j \in Keys \ {k} : Get(after, j) = Get(sl, j))
          /\ \A k \in Keys :
                Local(del(sl, k).sl, LAMBDA after :
                    /\ Get(after, k) = <<ZeroValue, FALSE>>
                    /\ \A j \in Keys \ {k} : Get(after, j) = Get(sl, j)))

\* Key 1 holds the higher value, key 2 the lower and key 3 is absent: what
\* remains after setting all three, key 1 twice, and deleting key 3.
C12_Witness ==
    /\ Get(sl, 1) = <<MaxValue, TRUE>>
    /\ Get(sl, 2) = <<1, TRUE>>
    /\ Get(sl, 3) = <<ZeroValue, FALSE>>

\* The tier-0 chain of the list s, and the places of key k on it.
Tier0(s) == ChainFrom(s.nodes, 0, Header, Cardinality(DOMAIN s.nodes))

PlacesOf(s, k) == {j \in 1..Len(Tier0(s)) : s.nodes[Tier0(s)[j]].data.Key = k}

\* C13: Set(k, v2) on a present key is an update: Length() is unchanged,
\* Get(k) is (v2, true), exactly one node with key k is linked, at the place
\* (v2, k) has among the entries, and Rank(k) is that place.
C13_SetPresentIsUpdate ==
    [](\A k \in DOMAIN sl.dict, v2 \in Values, draws \in DrawSeqs :
           Local(Set(sl, k, v2, randomLevel(draws)), LAMBDA after :
               LET d == [sl.dict EXCEPT ![k] = v2]
               IN  /\ Length(after) = Length(sl)
                   /\ Get(after, k) = <<v2, TRUE>>
                   /\ PlacesOf(after, k) = {RefRank(d, k)}
                   /\ Cardinality({n \in DOMAIN after.nodes \ {Header} :
                                      after.nodes[n].data.Key = k}) = 1
                   /\ Rank(after, k) = <<RefRank(d, k), TRUE>>))

\* Key 1 holds the highest value and is ranked last of three, on a list of
\* more than one tier: where an update of key 1 from the lowest value
\* leaves it.
C13_Witness ==
    /\ sl.length = 3
    /\ sl.level > 1
    /\ sl.dict[1] = MaxValue
    /\ sl.dict[2] < MaxValue
    /\ sl.dict[3] < MaxValue
    /\ Rank(sl, 1) = <<3, TRUE>>

\* C14: Del(k) returns true exactly when k is present (a node with key k is
\* linked); a Del(k) that returns true makes Get(k) and Rank(k) not-found
\* and Length() one less, and leaves every other key present with its
\* value.
C14_DelRemovesOnlyItsKey ==
    [](\A k \in Keys :
           Local(del(sl, k), LAMBDA done :
               /\ done.ret = (PlacesOf(sl, k) # {})
               /\ done.ret
                    => /\ Get(done.sl, k) = <<ZeroValue, FALSE>>
                       /\ Rank(done.sl, k) = <<0, FALSE>>
                       /\ Length(done.sl) = Length(sl) - 1
                       /\ \A j \in Keys \ {k} :
                              /\ Get(done.sl, j) = Get(sl, j)
                              /\ (PlacesOf(done.sl, j) # {})
                                     = (PlacesOf(sl, j) # {})))

\* Two of three keys are left, the lower-ranked one on two tiers and key 2
\* absent: where deleting key 2 from a full list leaves it.
C14_Witness ==
    /\ DOMAIN sl.dict = {1, 3}
    /\ sl.length = 2
    /\ sl.level = 2
    /\ Rank(sl, 2) = <<0, FALSE>>
    /\ Rank(sl, 3) = <<1, TRUE>>

\* C15: Del(k) for a key that is not present (no node with key k is linked;
\* on the empty list, any key) returns false and leaves the list as it was:
\* every node's forward and span, dict, length and level.
C15_DelAbsentChangesNothing ==
    \A k \in Keys :
        PlacesOf(sl, k) = {} => del(sl, k) = [sl |-> sl, ret |-> FALSE]

\* Keys 2 and 3 are present on two tiers and key 1, which would be first,
\* is not.
C15_Witness ==
    /\ DOMAIN sl.dict = {2, 3}
    /\ sl.level = 2
    /\ PlacesOf(sl, 1) = {}
    /\ sl.nodes[sl.nodes[Header].forward[1]].span[1] = 2

\* C16: Rank(k) is (0, false) when k is absent; for a present key it is
\* (r, true) with 1 <= r <= Length(), and two present keys never get the
\* same rank.
C16_RankWithinLength ==
    /\ \A k \in Keys :
           IF k \in DOMAIN sl.dict
           THEN /\ Rank(sl, k)[2]
                /\ 1 <= Rank(sl, k)[1]
                /\ Rank(sl, k)[1] <= Length(sl)
           ELSE Rank(sl, k) = <<0, FALSE>>
    /\ \A j, k \in DOMAIN sl.dict : j # k => Rank(sl, j)[1] # Rank(sl, k)[1]

\* The first and the last key tie on the value and are ranked first and
\* last, and the middle key is absent.
C16_Witness ==
    /\ DOMAIN sl.dict = {1, 3}
    /\ sl.dict[1] = sl.dict[3]
    /\ Rank(sl, 1)[1] = 1
    /\ Rank(sl, 3)[1] = Length(sl)
    /\ ~Rank(sl, 2)[2]

\* C17: entries with equal value are ordered by ascending key, whatever the
\* order of the Set calls: two present keys k1 < k2 with the same value have
\* Rank(k1) < Rank(k2), and keys 1, 2, 3 with one value have ranks 1, 2, 3.
C17_TiesOrderedByKey ==
    /\ \A k1, k2 \in DOMAIN sl.dict :
           (k1 < k2 /\ sl.dict[k1] = sl.dict[k2])
               => Rank(sl, k1)[1] < Rank(sl, k2)[1]
    /\ (DOMAIN sl.dict = {1, 2, 3} /\ sl.dict[1] = sl.dict[2]
                                   /\ sl.dict[2] = sl.dict[3])
           => \A k \in {1, 2, 3} : Rank(sl, k) = <<k, TRUE>>

\* Keys 1, 2 and 3 all hold the same value, on a list of two tiers.
C17_Witness ==
    /\ DOMAIN sl.dict = {1, 2, 3}
    /\ sl.dict[1] = sl.dict[2]
    /\ sl.dict[2] = sl.dict[3]
    /\ sl.level = 2

\* C18: rank 1 belongs to the entry with the highest value: a present key
\* of rank 1 has a value no present key exceeds, and when every present key
\* k of 1..n holds the value k, Rank(k) is n - k + 1.
C18_RankOneIsHighest ==
    /\ \A k \in DOMAIN sl.dict :
           Rank(sl, k) = <<1, TRUE>>
               => \A j \in DOMAIN sl.dict : sl.dict[j] <= sl.dict[k]
    /\ (/\ DOMAIN sl.dict = 1..sl.length
        /\ \A k \in DOMAIN sl.dict : sl.dict[k] = k)
           => \A k \in DOMAIN sl.dict :
                  Rank(sl, k) = <<sl.length - k + 1, TRUE>>

\* The list after Set(k, v), with the level the draws give, and Del(k).
SetThenDel(s, k, v, draws) == del(Set(s, k, v, randomLevel(draws)), k).sl

\* C19 as stated: in any state, after Set(k, v) and Del(k), Get(k) is
\* not-found and Length() is what it was before the Set.
C19_RoundTripKeepsLength ==
    \A k \in Keys, v \in Values, draws \in DrawSeqs :
        Local(SetThenDel(sl, k, v, draws), LAMBDA after :
            /\ Get(after, k) = <<ZeroValue, FALSE>>
            /\ Length(after) = Length(sl))

\* C19 amended: after Set(k, v) and Del(k), Get(k) is not-found, and
\* Length() is what it was before the Set when k was absent then, and one
\* less when k was present.
C19_RoundTripDropsKey ==
    [](\A k \in Keys, v \in Values, draws \in DrawSeqs :
           Local(SetThenDel(sl, k, v, draws), LAMBDA after :
               /\ Get(after, k) = <<ZeroValue, FALSE>>
               /\ Length(after) =
                      IF Get(sl, k)[2] THEN Length(sl) - 1 ELSE Length(sl)))

\* Two keys are present and one is absent: the round trip on a present key
\* leaves one entry, on the absent key two.
C19_Witness ==
    /\ Length(sl) = 2
    /\ \E k \in Keys :
           /\ Get(sl, k)[2]
           /\ Length(SetThenDel(sl, k, 1, <<FALSE>>)) = 1
    /\ \E k \in Keys :
           /\ ~Get(sl, k)[2]
           /\ Length(SetThenDel(sl, k, 1, <<TRUE, FALSE>>)) = 2

\* C20: Set(k, v) right after Set(k, v) changes nothing one can observe: in
\* every state where k holds v (every state a Set(k, v) leaves, whatever
\* its level), a Set(k, v) at any level leaves Get(k) = (v, true), and
\* Length() and the Rank of every key as they were.
C20_SetTwiceIsSetOnce ==
    [](\A k \in DOMAIN sl.dict, draws \in DrawSeqs :
           Local(Set(sl, k, sl.dict[k], randomLevel(draws)), LAMBDA after :
               /\ Get(after, k) = <<sl.dict[k], TRUE>>
               /\ Length(after) = Length(sl)
               /\ \A j \in Keys : Rank(after, j) = Rank(sl, j)))

\* Three entries, the middle one on one tier and the last on two: a second
\* Set of the middle key can raise it to the upper tier, between the header
\* and the last node.
C20_Witness ==
    /\ sl.length = 3
    /\ sl.level = 2
    /\ \E n \in DOMAIN sl.nodes :
           /\ Pos0(n) = 2
           /\ sl.nodes[n].level = 1
    /\ \E n \in DOMAIN sl.nodes :
           /\ Pos0(n) = 3
           /\ sl.nodes[n].level = 2

\* s is a prefix of t.
IsPrefix(s, t) == Len(s) <= Len(t) /\ \A j \in 1..Len(s) : s[j] = t[j]

\* C21: in a fixed state and for a fixed start, Range(start, end1) is a
\* prefix of Range(start, end2) whenever end1 <= end2, and the two are equal
\* when Range(start, end1) already ends with the last entry of the list.
C21_RangeGrowsWithEnd ==
    [](\A start \in LowStarts \cup RangeStarts :
           Local([end \in RangeEnds |-> Range(sl, start, end)], LAMBDA got :
               \A end1, end2 \in RangeEnds :
                   end1 <= end2
                       => /\ IsPrefix(got[end1], got[end2])
                          /\ (/\ got[end1] # <<>>
                              /\ Rank(sl, got[end1][Len(got[end1])].Key)
                                     = <<Length(sl), TRUE>>)
                                 => got[end2] = got[end1]))

\* Three entries on two tiers: Range(2, end) grows from nothing to the last
\* two entries and then stays.
C21_Witness ==
    /\ sl.length = 3
    /\ sl.level = 2
    /\ Len(Range(sl, 2, 2)) = 0
    /\ Len(Range(sl, 2, 3)) = 1
    /\ Len(Range(sl, 2, 4)) = 2
    /\ Range(sl, 2, 5) = Range(sl, 2, 4)

\* C22: Range(start, end) is the empty sequence, and makes no faulty access,
\* whenever start >= end, or start > Length(), or the list is empty.
C22_RangeEmptyCases ==
    [](\A start \in LowStarts \cup RangeStarts, end \in RangeEnds :
           (start >= end \/ start > Length(sl) \/ Length(sl) = 0)
               => /\ Range(sl, start, end) = <<>>
                  /\ \A a \in RangeAccess(sl, start, end) : ~Panics(a))

\* Two entries on two tiers: a range that starts where it ends, and one
\* that starts after the last entry.
C22_Witness ==
    /\ sl.length = 2
    /\ sl.level = 2
    /\ Range(sl, 2, 2) = <<>>
    /\ Range(sl, 3, 5) = <<>>
    /\ Range(sl, 2, 3) # <<>>

\* The levels of the nodes linked on tier 0 of the list s.
LinkedLevels(s) == {s.nodes[Tier0(s)[j]].level : j \in 1..Len(Tier0(s))}

\* C23: every linked node's level is in 1..MaxLevel, the header's is
\* MaxLevel, the list's level is in 1..MaxLevel, is 1 when the list is
\* empty and the highest level of a linked node when it is not, and the
\* header's forward pointer is nil on every tier at or above the list's
\* level.
C23_LevelIsHighestNode ==
    /\ LinkedLevels(sl) \subseteq 1..MaxLevel
    /\ sl.nodes[Header].level = MaxLevel
    /\ sl.level \in 1..MaxLevel
    /\ sl.length = 0 => sl.level = 1
    /\ sl.length > 0
           => /\ sl.level \in LinkedLevels(sl)
              /\ \A l \in LinkedLevels(sl) : l <= sl.level
    /\ \A i \in Tiers :
           i >= sl.level => sl.nodes[Header].forward[i] = Nil

\* One node, three tiers high, and nothing above it: the list's level is
\* the node's.
C23_Witness ==
    /\ sl.length = 1
    /\ sl.level = 3
    /\ LinkedLevels(sl) = {3}
    /\ DOMAIN sl.dict = {2}

\* C24: readers share the lock: a goroutine about to take the read lock for
\* Get, Rank, Range or Length can take it whenever no writer holds or waits
\* for the lock, whatever readers are inside.
C24_ReadersShareLock ==
    \A p \in Procs :
        rw.w = {}
            => /\ pc[p] = "Get_RLock" => ENABLED GetRLock(p)
               /\ pc[p] = "Rank_RLock" => ENABLED RankRLock(p)
               /\ pc[p] = "Range_RLock" => ENABLED RangeRLock(p)
               /\ pc[p] = "Length_RLock" => ENABLED LengthRLock(p)

\* A Get and a Range are inside their critical sections at the same time.
C24_Witness ==
    \E p, q \in Procs :
        /\ pc[p] = "Get_read"
        /\ pc[q] = "Range_read"
        /\ rw.readers = {p, q}
        /\ rw.w = {}

\* C25: New() yields an empty list: length 0, level 1, an empty dict and
\* every forward pointer of the header nil; on it Length() is 0, Get, Rank
\* and Del of any key report not-found, and Range is empty for all
\* arguments.
C25_NewIsEmpty ==
    sl = New
        => /\ sl.length = 0
           /\ sl.level = 1
           /\ DOMAIN sl.dict = {}
           /\ DOMAIN sl.nodes = {Header}
           /\ \A i \in Tiers : sl.nodes[Header].forward[i] = Nil
           /\ Length(sl) = 0
           /\ \A k \in Keys :
                  /\ Get(sl, k) = <<ZeroValue, FALSE>>
                  /\ Rank(sl, k) = <<0, FALSE>>
                  /\ ~del(sl, k).ret
           /\ \A start \in LowStarts \cup RangeStarts, end \in RangeEnds :
                  Range(sl, start, end) = <<>>

\* The list is as New() made it.
C25_Witness == sl = New /\ \A p \in Procs : pc[p] = "idle"

\* The address of the node that holds key k in s.
NodeOf(s, k) ==
    CHOOSE n \in DOMAIN s.nodes \ {Header} : s.nodes[n].data.Key = k

\* The predecessor of (value, key) on tier i of s: the last node of the
\* tier whose entry is before (value, key), the header when there is none.
PredAt(s, i, key, value) ==
    LET ch     == ChainFrom(s.nodes, i, Header, Cardinality(DOMAIN s.nodes))
        before == {j \in 1..Len(ch) :
                      Less(s.nodes[ch[j]].data.Value, s.nodes[ch[j]].data.Key,
                           value, key)}
    IN  IF before = {} THEN Header ELSE ch[Cardinality(before)]

\* C26 as stated: when Del removes a present key, at each tier where the
\* predecessor points at the target the predecessor takes over the target's
\* forward pointer and the predecessor's own span grows by the target's
\* span less 1; at each other active tier the predecessor's own span drops
\* by 1.
C26_DelFoldsIntoPredecessor ==
    [](\A k \in DOMAIN sl.dict :
           Local(del(sl, k).sl, LAMBDA after :
               \A i \in 0..(sl.level - 1) :
                   LET t == NodeOf(sl, k)
                       p == PredAt(sl, i, k, sl.dict[k])
                   IN  IF sl.nodes[p].forward[i] = t
                       THEN /\ after.nodes[p].forward[i] =
                                   sl.nodes[t].forward[i]
                            /\ after.nodes[p].span[i] =
                                   sl.nodes[p].span[i]
                                       + (sl.nodes[t].span[i] - 1)
                       ELSE after.nodes[p].span[i] =
                                sl.nodes[p].span[i] - 1))

\* C26: when Del removes a present key, at each tier where the predecessor
\* points at the target the predecessor takes over the target's forward
\* pointer and the node after the target, if any, has its span grown by the
\* target's span less 1; at each other active tier the node after the
\* predecessor, if any, has its span reduced by 1 and stays linked; the
\* predecessor's own span changes at neither.
C26_DelFoldsIntoSuccessor ==
    [](\A k \in DOMAIN sl.dict :
           Local(del(sl, k).sl, LAMBDA after :
               \A i \in 0..(sl.level - 1) :
                   LET t == NodeOf(sl, k)
                       p == PredAt(sl, i, k, sl.dict[k])
                       f == sl.nodes[p].forward[i]
                       n == sl.nodes[t].forward[i]
                   IN  /\ after.nodes[p].span[i] = sl.nodes[p].span[i]
                       /\ IF f = t
                          THEN /\ after.nodes[p].forward[i] = n
                               /\ n # Nil =>
                                      after.nodes[n].span[i] =
                                          sl.nodes[n].span[i]
                                              + (sl.nodes[t].span[i] - 1)
                          ELSE /\ after.nodes[p].forward[i] = f
                               /\ f # Nil =>
                                      after.nodes[f].span[i] =
                                          sl.nodes[f].span[i] - 1))

\* Three entries, the first on one tier and the other two on two: a Del of
\* the second folds a span of 2 into the third on tier 1, a Del of the first
\* passes under the link from the header to the second.
C26_Witness ==
    /\ sl.length = 3
    /\ sl.level = 2
    /\ \E u, t, n \in DOMAIN sl.nodes :
           /\ Pos0(u) = 1 /\ sl.nodes[u].level = 1
           /\ Pos0(t) = 2 /\ sl.nodes[t].level = 2
           /\ sl.nodes[t].span[1] = 2
           /\ sl.nodes[t].forward[1] = n
           /\ Pos0(n) = 3

\* The 1-based place of address n on tier 0 of s, 0 for the header: the
\* rank of the node at n.
PlaceOf(s, n) ==
    IF n = Header THEN 0
    ELSE CHOOSE j \in 1..Len(Tier0(s)) : Tier0(s)[j] = n

\* The list Set(k, ...) splices into: s without the node of k.
Without(s, k) == IF k \in DOMAIN s.dict THEN del(s, k).sl ELSE s

\* C27: when Set splices in a new node, at every tier below the node's
\* level the node is linked between its tier-i predecessor and the node
\* that followed it, with span 1 at tier 0 and rank[0] - rank[i] + 1 above,
\* rank[i] being the rank of the tier-i predecessor; the node after it at
\* tier i, if any, has its span reduced by rank[0] - rank[i], the two spans
\* adding up to its old span plus 1; at every tier from the node's level up
\* to the list's, the node after the predecessor, if any, has its span
\* increased by exactly 1.
C27_SetSpliceSpans ==
    [](\A k \in Keys, v \in Values, draws \in DrawSeqs :
           Local(Without(sl, k), LAMBDA before :
           Local(Set(sl, k, v, randomLevel(draws)), LAMBDA after :
               LET level == randomLevel(draws)
                   new   == NodeOf(after, k)
                   rank0 == PlaceOf(before, PredAt(before, 0, k, v))
               IN  \A i \in 0..(after.level - 1) :
                       LET p     == PredAt(before, i, k, v)
                           ranki == PlaceOf(before, p)
                           f     == before.nodes[p].forward[i]
                       IN  IF i < level
                           THEN /\ after.nodes[p].forward[i] = new
                                /\ after.nodes[new].forward[i] = f
                                /\ after.nodes[new].span[i] =
                                       rank0 - ranki + 1
                                /\ i = 0 => after.nodes[new].span[i] = 1
                                /\ f # Nil =>
                                       /\ after.nodes[f].span[i] =
                                              before.nodes[f].span[i]
                                                  - (rank0 - ranki)
                                       /\ after.nodes[new].span[i]
                                              + after.nodes[f].span[i] =
                                              before.nodes[f].span[i] + 1
                           ELSE /\ after.nodes[p].forward[i] = f
                                /\ f # Nil =>
                                       after.nodes[f].span[i] =
                                           before.nodes[f].span[i] + 1)))

\* Two entries, the first on one tier and the second on two, and an absent
\* key whose entry goes between them: on tier 1 a Set of it at level 2 cuts
\* the second node's span, a Set of it at level 1 passes under the link.
C27_Witness ==
    /\ sl.length = 2
    /\ sl.level = 2
    /\ \E w \in DOMAIN sl.nodes :
           /\ Pos0(w) = 2
           /\ sl.nodes[w].level = 2
           /\ sl.nodes[w].span[1] = 2
    /\ \E k \in Keys \ DOMAIN sl.dict, v \in Values :
           /\ PredAt(sl, 0, k, v) # Header
           /\ PredAt(sl, 1, k, v) = Header
           /\ sl.nodes[PredAt(sl, 0, k, v)].forward[0] # Nil

\* The list s is as a whole Set or Del leaves it: every entry of dict is
\* linked once on tier 0, nothing else is, and length counts them.
Whole(s) ==
    /\ s.length = Cardinality(DOMAIN s.dict)
    /\ Len(Tier0(s)) = s.length
    /\ \A k \in DOMAIN s.dict :
           \E j \in 1..Len(Tier0(s)) :
               s.nodes[Tier0(s)[j]].data = [Key |-> k, Value |-> s.dict[k]]

\* Goroutine p is between the first and the last write of a mutation.
MidMutation(p) == pc[p] \in {"Set_insert", "Set_count"}

\* C28: readers never observe a mutation half done: while a Get, Rank,
\* Range or Length is reading or holds its result, no Set is between
\* removing the old node and counting the new one, the list is as whole
\* Sets and Dels left it, and the result held is the result of the call in
\* that state: the value dict holds or not-found, the rank the order gives,
\* the entries in rank order, the number of entries.
C28_ReadersSeeWholeStates ==
    \A p \in Procs :
        InRead(p)
            => /\ \A q \in Procs : ~MidMutation(q)
               /\ Whole(sl)
               /\ pc[p] = "Get_RUnlock" =>
                      /\ ret[p] = Ret(Get(sl, call[p].key)[2],
                                      Get(sl, call[p].key)[1], <<>>)
                      /\ ret[p].ok = (call[p].key \in DOMAIN sl.dict)
                      /\ ret[p].ok => ret[p].n = sl.dict[call[p].key]
               /\ pc[p] = "Rank_RUnlock" =>
                      /\ ret[p].ok = (call[p].key \in DOMAIN sl.dict)
                      /\ ret[p].ok => ret[p].n = RefRank(sl.dict, call[p].key)
               /\ pc[p] = "Range_RUnlock" =>
                      /\ ret[p].entries = Range(sl, call[p].start, call[p].end)
                      /\ \A j \in 1..Len(ret[p].entries) :
                             /\ ret[p].entries[j].Key \in DOMAIN sl.dict
                             /\ ret[p].entries[j].Value =
                                    sl.dict[ret[p].entries[j].Key]
                             /\ j > 1 =>
                                    Less(ret[p].entries[j - 1].Value,
                                         ret[p].entries[j - 1].Key,
                                         ret[p].entries[j].Value,
                                         ret[p].entries[j].Key)
               /\ pc[p] = "Length_RUnlock" =>
                      ret[p].n = Cardinality(DOMAIN sl.dict)

\* A Get holds the value of a key while a Set of another value to that key
\* waits for the readers to leave.
C28_Witness ==
    \E p, q \in Procs :
        /\ pc[p] = "Get_RUnlock"
        /\ ret[p].ok
        /\ pc[q] = "Set_LockWait"
        /\ call[q].key = call[p].key
        /\ call[q].value # ret[p].n

\* C29: after Del(k) of a present key, every key that ranked after k has
\* its Rank reduced by exactly 1 and every key that ranked before k keeps
\* its Rank, whatever the levels of the nodes; and a Set of an absent key
\* at any level followed by its Del leaves the Rank of every key as it was.
C29_DelShiftsLaterRanks ==
    [](/\ \A k \in DOMAIN sl.dict :
              Local(del(sl, k).sl, LAMBDA after :
                  \A j \in DOMAIN sl.dict \ {k} :
                      Rank(after, j) =
                          IF Rank(sl, j)[1] > Rank(sl, k)[1]
                          THEN <<Rank(sl, j)[1] - 1, TRUE>>
                          ELSE Rank(sl, j))
       /\ \A k \in Keys \ DOMAIN sl.dict, v \in Values, draws \in DrawSeqs :
              Local(SetThenDel(sl, k, v, draws), LAMBDA after :
                  \A j \in Keys : Rank(after, j) = Rank(sl, j)))

\* Three entries, the first and the last on two tiers and the middle one on
\* one: a Del of the middle one passes under the link to the last on tier 1.
C29_Witness ==
    /\ sl.length = 3
    /\ \E a, b, c \in DOMAIN sl.nodes :
           /\ Pos0(a) = 1 /\ sl.nodes[a].level = 2
           /\ Pos0(b) = 2 /\ sl.nodes[b].level = 1
           /\ Pos0(c) = 3 /\ sl.nodes[c].level = 2
           /\ sl.nodes[c].span[1] = 2

\* C30: when the level generated for a new node exceeds the list's level,
\* Set raises the list's level to exactly the generated level, and on each
\* tier from the old level up the new node is the only node: the header
\* points at it, its forward pointer is nil and its span is its own rank.
C30_SetRaisesLevel ==
    [](\A key \in TallKeys, value \in Values, draws \in TallDraws :
           Local(Without(sl, key), LAMBDA before :
               randomLevel(draws) > before.level
                   => Local(Set(sl, key, value, randomLevel(draws)),
                            LAMBDA after :
                          LET new == NodeOf(after, key)
                          IN  /\ after.level = randomLevel(draws)
                              /\ \A i \in before.level..(after.level - 1) :
                                     /\ after.nodes[Header].forward[i] = new
                                     /\ after.nodes[new].forward[i] = Nil
                                     /\ after.nodes[new].span[i] =
                                            RefRank(after.dict, key)
                                     /\ after.nodes[new].span[i] =
                                            Rank(after, key)[1])))

\* One entry on two tiers and an absent key that goes after it: a Set of
\* that key at a level above 2 puts a node of rank 2 alone on the new tiers.
C30_Witness ==
    /\ sl.length = 1
    /\ sl.level = 2
    /\ DOMAIN sl.dict = {1}
    /\ sl.dict[1] = 1

\* The list after Del of each key of the sequence order, in that order.
RECURSIVE DelEach(_, _)
DelEach(s, order) ==
    IF order = <<>> THEN s
    ELSE Local(del(s, Head(order)).sl, LAMBDA s1 : DelEach(s1, Tail(order)))

\* The orders in which the keys of set d can be deleted, once each.
Orders(d) ==
    {o \in [1..Cardinality(d) -> d] :
        \A a, b \in 1..Cardinality(d) : a # b => o[a] # o[b]}

\* C31: whatever keys have been inserted, at whatever levels, deleting
\* every one of them, in any order, leaves the list as New() makes it:
\* length 0, an empty dict, level 1 and every forward pointer of the header
\* nil.
C31_DeleteAllIsNew ==
    [](\A order \in Orders(DOMAIN sl.dict) :
           Local(DelEach(sl, order), LAMBDA after :
               /\ after.length = 0
               /\ DOMAIN after.dict = {}
               /\ after.level = 1
               /\ \A i \in Tiers : after.nodes[Header].forward[i] = Nil
               /\ after = New))

\* Two entries, the first three tiers high and the second on tier 0 only:
\* deleting the first lowers the level by two, deleting the second by none.
C31_Witness ==
    /\ sl.length = 2
    /\ sl.level = 3
    /\ sl.nodes[sl.nodes[Header].forward[0]].level = 3
    /\ sl.nodes[sl.nodes[Header].forward[2]].forward[0] # Nil

\* ------------------------------------------------ a write straight to dict
\* Code of the package writes an entry to dict with no node linked for it,
\* as TestRankKeyNotExist does with sl.dict["x"] = 0.
StrayWrite(key, value) ==
    /\ IF key \in DOMAIN sl.dict THEN sl.dict[key] # value ELSE TRUE
    /\ sl' = [sl EXCEPT !.dict = [k \in DOMAIN sl.dict \cup {key} |->
                                     IF k = key THEN value ELSE sl.dict[k]]]
    /\ UNCHANGED <<rw, pc, call, reg, ret>>

\* Sets and Dels, then one write straight to dict, then only reads.
StrayNext ==
    \/ /\ Whole(sl)
       /\ \E key \in Keys, value \in Values, draws \in DrawSeqs :
              SetCall(key, value, draws)
    \/ /\ Whole(sl)
       /\ \E key \in Keys : DelCall(key)
    \/ /\ Whole(sl)
       /\ \E key \in Keys, value \in Values : StrayWrite(key, value)

StraySpec == Init /\ [][StrayNext]_vars

\* dict holds key k of s and no node with k and its value is linked.
Stray(s, k) ==
    /\ k \in DOMAIN s.dict
    /\ \A j \in 1..Len(Tier0(s)) :
           s.nodes[Tier0(s)[j]].data # [Key |-> k, Value |-> s.dict[k]]

\* C32: if dict holds a key for which no node with that value and key is
\* linked, Rank(key) returns (0, false), dereferencing no nil pointer and
\* indexing no array out of range on its way down to tier 0.
C32_RankOfStrayKey ==
    \A k \in Keys :
        Stray(sl, k)
            => /\ Rank(sl, k) = <<0, FALSE>>
               /\ \A a \in RankAccess(sl, k) : ~Panics(a)

\* dict holds a key with a value other than that of the node linked for the
\* key, in a list of two tiers with another entry before the node.
C32_Witness ==
    \E k \in Keys :
        /\ Stray(sl, k)
        /\ PlacesOf(sl, k) = {2}
        /\ sl.level = 2

\* The operations that take the read lock.
Reads == {"Get", "Rank", "Range", "Length"}

\* C33: Get, Rank, Range and Length are read-only: no step of a call to
\* any of them, from the call to the return, changes a forward pointer, a
\* span, dict, length or level, whatever the arguments and the result.
C33_ReadsChangeNothing ==
    [][\A p \in Procs :
           /\ pc'[p] # pc[p]
           /\ call[p].op \in Reads \/ call'[p].op \in Reads
           => sl' = sl]_vars

\* A Rank holds the rank 2 it found in a list of two tiers and is about to
\* return.
C33_Witness ==
    \E p \in Procs :
        /\ pc[p] = "Rank_RUnlock"
        /\ ret[p] = Ret(TRUE, 2, <<>>)
        /\ sl.level = 2

\* ------------------------------------------------ randomLevel, draw by draw
\* Goroutine p calls randomLevel: level := 1.
randomLevelCall(p) ==
    /\ Goto(p, "idle", "randomLevel_for")
    /\ call' = [call EXCEPT ![p] = [op |-> "randomLevel", draws |-> <<>>]]
    /\ reg' = [reg EXCEPT ![p] = 1]
    /\ UNCHANGED <<sl, rw, ret>>

\* randomLevelFor that lets the level pass MaxLevel by one.
randomLevelFor_capsAbove(p) ==
    /\ pc[p] = "randomLevel_for"
    /\ \E below \in BOOLEAN :
           /\ call' = [call EXCEPT ![p].draws = Append(@, below)]
           /\ IF below /\ reg[p] < MaxLevel + 1
              THEN reg' = [reg EXCEPT ![p] = @ + 1] /\ UNCHANGED pc
              ELSE pc' = [pc EXCEPT ![p] = "randomLevel_return"]
                   /\ UNCHANGED reg
    /\ UNCHANGED <<sl, rw, ret>>

\* One test of the loop condition: a draw, below Probability or not, then
\* the comparison with MaxLevel; level++ when both hold, out of the loop
\* when not.  reg[p] is level, call[p].draws the draws so far.
randomLevelFor(p) ==
    /\ pc[p] = "randomLevel_for"
    /\ \E below \in BOOLEAN :
           /\ call' = [call EXCEPT ![p].draws = Append(@, below)]
           /\ IF below /\ reg[p] < MaxLevel
              THEN reg' = [reg EXCEPT ![p] = @ + 1] /\ UNCHANGED pc
              ELSE pc' = [pc EXCEPT ![p] = "randomLevel_return"]
                   /\ UNCHANGED reg
    /\ UNCHANGED <<sl, rw, ret>>

\* return level.
randomLevelReturn(p) == Return(p, "randomLevel_return") /\ UNCHANGED <<sl, rw>>

LevelNext ==
    \E p \in Procs :
        randomLevelCall(p) \/ randomLevelFor(p) \/ randomLevelReturn(p)

LevelSpec == Init /\ [][LevelNext]_vars

\* A loop that has started goes on to its next test.
LevelFairSpec == LevelSpec /\ \A p \in Procs : WF_vars(randomLevelFor(p))

\* C34: randomLevel always terminates, after at most MaxLevel - 1
\* increments, and returns an integer in 1..MaxLevel, for every sequence of
\* draws, those always below Probability included; what it returns is what
\* randomLevel(draws) gives for the draws it took.
C34_RandomLevelTerminates ==
    \A p \in Procs :
        /\ (pc[p] = "randomLevel_for") ~> (pc[p] = "randomLevel_return")
        /\ [](pc[p] \in {"randomLevel_for", "randomLevel_return"}
                  => /\ reg[p] \in 1..MaxLevel
                     /\ reg[p] - 1 <= MaxLevel - 1
                     /\ reg[p] - 1 <= Len(call[p].draws)
                     /\ Len(call[p].draws) <= MaxLevel)
        /\ [](pc[p] = "randomLevel_return"
                  => reg[p] = randomLevel(call[p].draws))

\* Every draw was below Probability and the loop is over, at MaxLevel.
C34_Witness ==
    \E p \in Procs :
        /\ pc[p] = "randomLevel_return"
        /\ reg[p] = MaxLevel
        /\ Len(call[p].draws) = MaxLevel
        /\ \A j \in 1..MaxLevel : call[p].draws[j]

\* Everything the reads return on the list s: the result of every Get,
\* Rank, Range and Length call.
Observed(s) ==
    [get    |-> [k \in Keys |-> Get(s, k)],
     rank   |-> [k \in Keys |-> Rank(s, k)],
     range  |-> [a \in (LowStarts \cup RangeStarts) \X RangeEnds |->
                    Range(s, a[1], a[2])],
     length |-> Length(s)]

\* The same results worked out from the entries d alone, no node and no
\* level in sight.
ObservedOf(d) ==
    [get    |-> [k \in Keys |->
                    IF k \in DOMAIN d THEN <<d[k], TRUE>>
                    ELSE <<ZeroValue, FALSE>>],
     rank   |-> [k \in Keys |->
                    IF k \in DOMAIN d THEN <<RefRank(d, k), TRUE>>
                    ELSE <<0, FALSE>>],
     range  |-> [a \in (LowStarts \cup RangeStarts) \X RangeEnds |->
                    IF a[1] < 1 THEN RefWindow(d, 1, a[2] - a[1] + 1)
                    ELSE RefWindow(d, a[1], a[2])],
     length |-> Cardinality(DOMAIN d)]

\* The entries after Set(k, v) on entries d.
EntriesSet(d, k, v) ==
    [j \in DOMAIN d \cup {k} |-> IF j = k THEN v ELSE d[j]]

\* The entries after Del(k) on entries d.
EntriesDel(d, k) == [j \in DOMAIN d \ {k} |-> d[j]]

\* C35: what the reads return does not depend on the levels randomLevel
\* gave: in every state every Get, Rank, Range and Length result is the one
\* the entries alone determine, and the entries a Set or a Del leaves are
\* the same whatever level is drawn; so two lists given the same calls and
\* different levels hold the same entries and answer every read alike.
C35_ResultsIgnoreLevels ==
    [](/\ Observed(sl) = ObservedOf(sl.dict)
       /\ \A k \in Keys :
              del(sl, k).sl.dict = EntriesDel(sl.dict, k)
       /\ \A k \in Keys, v \in Values, draws \in DrawSeqs :
              Set(sl, k, v, randomLevel(draws)).dict =
                  EntriesSet(sl.dict, k, v))

\* Three entries whose nodes have the levels 1, 2, 1 from the first to the
\* last; the same Sets with other draws give the same entries other levels.
C35_Witness ==
    /\ sl.length = 3
    /\ [j \in 1..3 |-> sl.nodes[Chain(0)[j]].level] = <<1, 2, 1>>
    /\ Len(Chain(1)) = 1

\* C36: Range and Rank agree: for every start >= 1 and every end, the j-th
\* entry of Range(start, end), j counted from 0, has a key k with
\* Rank(k) = (start + j, true) and a value with Get(k) = (value, true).
C36_RangeAgreesWithRank ==
    \A start \in RangeStarts, end \in RangeEnds :
        Local(Range(sl, start, end), LAMBDA entries :
            \A j \in 0..(Len(entries) - 1) :
                /\ Rank(sl, entries[j + 1].Key) = <<start + j, TRUE>>
                /\ Get(sl, entries[j + 1].Key) = <<entries[j + 1].Value, TRUE>>)

\* Range(2, 4) returns the second and the third entry of a list of three
\* whose second node is on two tiers.
C36_Witness ==
    /\ sl.length = 3
    /\ Len(Range(sl, 2, 4)) = 2
    /\ sl.nodes[Chain(0)[2]].level = 2

Max2(a, b) == IF a >= b THEN a ELSE b

Min2(a, b) == IF a <= b THEN a ELSE b

TierOf(s, i) == ChainFrom(s.nodes, i, Header, Cardinality(DOMAIN s.nodes))

\* Address n is on the sequence of addresses ch.
On(ch, n) == \E j \in 1..Len(ch) : ch[j] = n

\* C38: in every state Sets and Dels reach, a node created with level L is
\* linked on each of the tiers 0 .. L-1, once, and on no tier at or above L;
\* the nodes of tier i+1 are a subsequence of those of tier i; and every
\* node reachable from the header on any tier holds an entry of dict, one
\* node an entry, so none that Del removed is.
C38_TiersNestAndHoldNoRemoved ==
    /\ \A i \in Tiers, n \in DOMAIN sl.nodes \ {Header} :
           /\ On(TierOf(sl, i), n) <=> i < sl.nodes[n].level
           /\ Cardinality({j \in 1..Len(TierOf(sl, i)) :
                              TierOf(sl, i)[j] = n}) <= 1
    /\ \A i \in Tiers :
           /\ \A j \in 1..Len(TierOf(sl, i)) :
                  /\ TierOf(sl, i)[j] \in DOMAIN sl.nodes \ {Header}
                  /\ On(TierOf(sl, 0), TierOf(sl, i)[j])
                  /\ i > 0 => On(TierOf(sl, i - 1), TierOf(sl, i)[j])
           /\ \A a, b \in 1..Len(TierOf(sl, i)) :
                  a < b => PlaceOf(sl, TierOf(sl, i)[a])
                               < PlaceOf(sl, TierOf(sl, i)[b])
    /\ \A n \in DOMAIN sl.nodes \ {Header} :
           /\ sl.nodes[n].data.Key \in DOMAIN sl.dict
           /\ sl.dict[sl.nodes[n].data.Key] = sl.nodes[n].data.Value
           /\ \A m \in DOMAIN sl.nodes \ {Header} :
                  sl.nodes[m].data.Key = sl.nodes[n].data.Key => m = n
    /\ Len(TierOf(sl, 0)) = Cardinality(DOMAIN sl.dict)

\* Two entries, the first on two tiers and the second on three: tier 2 holds
\* the second only, tiers 1 and 0 both.
C38_Witness ==
    /\ sl.length = 2
    /\ Len(TierOf(sl, 2)) = 1
    /\ Len(TierOf(sl, 1)) = 2
    /\ sl.nodes[TierOf(sl, 0)[1]].level = 2

\* Between the lists s and t no key but k has changed: Get of every other
\* key is the same, and any two other keys present rank in the same order.
OthersKept(s, t, k) ==
    /\ \A j \in Keys \ {k} : Get(t, j) = Get(s, j)
    /\ \A i, j \in DOMAIN s.dict \ {k} :
           /\ Rank(t, i)[2]
           /\ (Rank(t, i)[1] < Rank(t, j)[1]) <=> (Rank(s, i)[1] < Rank(s, j)[1])

\* C39: Set(k, v) and Del(k) affect no other key's entry: for every key j
\* other than k, Get(j) is the same before and after the call, and any two
\* keys other than k keep their relative rank order.
C39_OtherKeysUntouched ==
    [](\A k \in Keys :
           /\ Local(del(sl, k).sl, LAMBDA after : OthersKept(sl, after, k))
           /\ \A v \in Values, draws \in DrawSeqs :
                  Local(Set(sl, k, v, randomLevel(draws)), LAMBDA after :
                      OthersKept(sl, after, k)))

\* Three entries, keys 1 and 3 with the same value and key 2 with another:
\* a Set of key 2 to their value moves it between them.
C39_Witness ==
    /\ sl.length = 3
    /\ sl.dict[1] = sl.dict[3]
    /\ sl.dict[2] # sl.dict[1]
    /\ sl.level = 2

====
